---- MODULE Spec2Model ----
(***************************************************************************)
(* Model of src/src/main.rs: the A* search a_star over the 8x8 board, with *)
(* its helpers neighbors, calculate_distance and reconstruct_path.         *)
(*                                                                         *)
(* One a_star call is a run of the state machine: Init is the state after  *)
(* lines 57-64 (the maps created, g_score[start] = 0, the start node       *)
(* pushed), each iteration of `while let Some(current) = open_set.pop()`   *)
(* is one action, and reconstruct_path's predecessor walk is one action    *)
(* per link.  BinaryHeap::pop returns a greatest element and leaves the    *)
(* choice among equal elements open, so the pop is a choice over all       *)
(* entries of least f_cost.                                                *)
(*                                                                         *)
(* g_score holds f64 values in the source, every one of them written from  *)
(* a usize below 2^53 and read back with `as usize`; both conversions are  *)
(* exact on these values, so the model keeps the integers.                 *)
(***************************************************************************)
EXTENDS Integers, Sequences, FiniteSets, Bags, TLC

VARIABLES
    start,       \* a_star's argument start
    goal,        \* a_star's argument goal
    barriers,    \* a_star's argument barriers, as a set (only .contains is used)
    open_set,    \* the BinaryHeap of Node, as a bag
    closed_set,  \* the HashSet of expanded points
    came_from,   \* the HashMap point -> predecessor
    g_score,     \* the HashMap point -> best cost
    pc,          \* "search" | "reconstruct" | "done"
    path,        \* reconstruct_path's vector (goal-first until reversed)
    current,     \* reconstruct_path's cursor
    ret,         \* "pending" | "some" | "none": a_star's return value
    run,         \* 1 for the call with the barriers, 2 for the call after remove_barriers
    prev_cost,   \* cost of the path the first call returned (-1: none yet / None)
    game,        \* the Game struct: player, barriers, fruit, enemy, destination
    input,       \* Game::play: the line read in the last turn, as characters
    out,         \* Game::play: the messages printed in the last turn
    over,        \* Game::play: the loop has reached its `break`
    shown        \* main: the number of path points its `for` loop has shown

searchVars == <<start, goal, barriers, open_set, closed_set, came_from, g_score,
                pc, path, current, ret, run, prev_cost>>

gameVars == <<game, input, out, over, shown>>

vars == <<start, goal, barriers, open_set, closed_set, came_from, g_score,
          pc, path, current, ret, run, prev_cost, game, input, out, over, shown>>

----------------------------------------------------------------------------
(* Program constants and the bounds of the inputs.                         *)

\* the board is 8x8: `new_x < 8 && new_y < 8`
N == 8

Coord == (0 .. N - 1) \X (0 .. N - 1)

\* the largest total a search can reach stays far below this; it only bounds
\* the candidates of the rounding in calculate_distance
MaxDist == 2 * N

Abs(x) == IF x < 0 THEN -x ELSE x

\* calculate_distance with the city-block distance in place of the rounded
\* Euclidean one
calculate_distance_manhattan(point1, point2) ==
    Abs(point2[1] - point1[1]) + Abs(point2[2] - point1[2])

\* calculate_distance: ((x2-x1)^2 + (y2-y1)^2).sqrt().round() as usize.
\* f64::round rounds half away from zero; the square root of an integer is
\* never k + 1/2, so the result is the k with (k - 1/2)^2 < s < (k + 1/2)^2,
\* that is k*k - k < s <= k*k + k (and 0 for s = 0).
calculate_distance(point1, point2) ==
    LET s == (point2[1] - point1[1]) * (point2[1] - point1[1])
             + (point2[2] - point1[2]) * (point2[2] - point1[2])
    IN  CHOOSE k \in 0 .. MaxDist :
            /\ s <= k * k + k
            /\ (k = 0 \/ s > k * k - k)

\* the loops with dy running over [0, 1, 2]
DeltasShifted == [i \in 1 .. 9 |-> << ((i - 1) \div 3) - 1, (i - 1) % 3 >>]

\* the nested loops `for &dx in &[-1, 0, 1] { for &dy in &[-1, 0, 1]`
Deltas == [i \in 1 .. 9 |-> << ((i - 1) \div 3) - 1, ((i - 1) % 3) - 1 >>]

\* the bounds test with `> 0` for `>= 0`
InGridStrict(x, y) == x > 0 /\ x < N /\ y > 0 /\ y < N

\* `new_x >= 0 && new_x < 8 && new_y >= 0 && new_y < 8`
InGrid(x, y) == x >= 0 /\ x < N /\ y >= 0 /\ y < N

\* neighbors: the in-grid cells around point, in the order they are pushed
neighbors(point) ==
    LET cand == [i \in 1 .. 9 |-> << point[1] + Deltas[i][1], point[2] + Deltas[i][2] >>]
        keep(i) == /\ ~(Deltas[i][1] = 0 /\ Deltas[i][2] = 0)
                   /\ InGrid(cand[i][1], cand[i][2])
        idx == SelectSeq([i \in 1 .. 9 |-> i], keep)
    IN  [j \in 1 .. Len(idx) |-> cand[idx[j]]]

\* Node::new
Node(point, g_cost, h_cost) == [point |-> point, g_cost |-> g_cost, h_cost |-> h_cost]

\* Node::f_cost
f_cost(n) == n.g_cost + n.h_cost

\* the order without the reversal: the heap pops a node of greatest f_cost
NodeLeqUnreversed(a, b) == f_cost(a) <= f_cost(b)

\* Ord for Node: self.cmp(other) = other.f_cost().cmp(self.f_cost()), so
\* a <= b in the heap's order exactly when b's f_cost is at most a's.
NodeLeq(a, b) == f_cost(b) <= f_cost(a)

\* BinaryHeap::pop returns a greatest entry: the candidates of one pop
PopCandidates(heap) ==
    {n \in BagToSet(heap) : \A m \in BagToSet(heap) : NodeLeq(m, n)}

\* HashMap::insert
Insert(map, k, v) == [x \in (DOMAIN map) \cup {k} |-> IF x = k THEN v ELSE map[x]]

EmptyMap == [x \in {} |-> 0]

\* the test without its barriers half
SkippedClosedOnly(neighbor, closed, bars) == neighbor \in closed

\* `closed_set.contains(&neighbor) || barriers.contains(&neighbor)`
Skipped(neighbor, closed, bars) == neighbor \in closed \/ neighbor \in bars

\* the test without its second half: a recorded cost is never improved
ImprovesFirstOnly(gs, neighbor, tentative_g_score) == neighbor \notin DOMAIN gs

\* no test at all: every neighbour that is not skipped is pushed
ImprovesAlways(gs, neighbor, tentative_g_score) == TRUE

\* the test with `<=` for `<`: an equal cost is recorded again
ImprovesOrEqual(gs, neighbor, tentative_g_score) ==
    neighbor \notin DOMAIN gs \/ tentative_g_score <= gs[neighbor]

\* `!g_score.contains_key(&neighbor) || tentative_g_score < g_score[&neighbor] as usize`
Improves(gs, neighbor, tentative_g_score) ==
    neighbor \notin DOMAIN gs \/ tentative_g_score < gs[neighbor]

\* the node line 84-85 pushes: f_score = tentative_g_score + distance to the
\* goal is handed to Node::new as its h_cost
PushedNode(neighbor, tentative_g_score, gl) ==
    Node(neighbor, tentative_g_score,
         tentative_g_score + calculate_distance(neighbor, gl))

\* the body with `g_score[&current.point]` alone as the tentative cost, the
\* edge cost of line 79 left out
RelaxOneNoEdgeCost(neighbor, cur, closed, bars, gl, st) ==
    LET tentative_g_score == st.g[cur]
    IN  IF Skipped(neighbor, closed, bars) THEN st
        ELSE IF Improves(st.g, neighbor, tentative_g_score)
             THEN [g  |-> Insert(st.g, neighbor, tentative_g_score),
                   cf |-> Insert(st.cf, neighbor, cur),
                   os |-> st.os (+) SetToBag({PushedNode(neighbor, tentative_g_score, gl)})]
             ELSE st

\* the body of `for neighbor in neighbors(current.point)`, lines 74-86, for
\* one neighbour; st = [g, cf, os] holds g_score, came_from and open_set
RelaxOne(neighbor, cur, closed, bars, gl, st) ==
    LET tentative_g_score == st.g[cur] + calculate_distance(cur, neighbor)
    IN  IF Skipped(neighbor, closed, bars) THEN st
        ELSE IF Improves(st.g, neighbor, tentative_g_score)
             THEN [g  |-> Insert(st.g, neighbor, tentative_g_score),
                   cf |-> Insert(st.cf, neighbor, cur),
                   os |-> st.os (+) SetToBag({PushedNode(neighbor, tentative_g_score, gl)})]
             ELSE st

\* the loop of line 73 over the neighbours nbrs[i..], in order (the state
\* after one neighbour is bound as x before the loop goes on)
RECURSIVE RelaxFrom(_, _, _, _, _, _, _)
RelaxFrom(nbrs, i, cur, closed, bars, gl, st) ==
    IF i > Len(nbrs) THEN st
    ELSE CHOOSE r \in {RelaxFrom(nbrs, i + 1, cur, closed, bars, gl, x) :
                          x \in {RelaxOne(nbrs[i], cur, closed, bars, gl, st)}} : TRUE

Relax(nbrs0, i, cur0, closed, bars, gl, st0) ==
    CHOOSE r \in {RelaxFrom(nbrs, i, cur, closed, bars, gl, st) :
                     nbrs \in {nbrs0}, cur \in {cur0}, st \in {st0}} : TRUE

\* the vector returned as built, goal first
ReverseMissing(s) == s

\* Vec::reverse
Reverse(s) == [i \in 1 .. Len(s) |-> s[Len(s) + 1 - i]]

\* the state a_star sets up in lines 57-64
Setup(s, g, b) ==
    /\ start = s
    /\ goal = g
    /\ barriers = b
    /\ open_set = SetToBag({Node(s, 0, calculate_distance(s, g))})
    /\ closed_set = {}
    /\ came_from = EmptyMap
    /\ g_score = Insert(EmptyMap, s, 0)
    /\ pc = "search"
    /\ path = << >>
    /\ current = s
    /\ ret = "pending"

----------------------------------------------------------------------------
(* The inputs of the calls that are checked.                               *)

\* The general calls take the goal in the room of RoomSize x RoomSize cells
\* at the board's origin and start in the room's first column (the column of
\* Game::new's player).
RoomSize == 3

Room == (0 .. RoomSize - 1) \X (0 .. RoomSize - 1)

RoomStarts == {p \in Room : p[2] = 0}

\* the cells just outside the room: with them blocked, a search that starts in
\* the room stays in it
Fence ==
    {p \in Coord : \/ (p[1] = RoomSize /\ p[2] <= RoomSize)
                   \/ (p[2] = RoomSize /\ p[1] <= RoomSize)}

\* a wall like the one Game::new builds: the cells of column c from row a to row b
Wall(c, a, b) == {<< r, c >> : r \in a .. b}

Walls ==
    {{}} \cup {Wall(c, a, b) : c \in 0 .. RoomSize - 1, a \in 0 .. RoomSize - 1,
                               b \in 0 .. RoomSize - 1}

\* Game::new: player, destination and barriers, the call main makes
GamePlayer == << 0, 0 >>
GameDestination == << 0, 7 >>
GameBarriers == {<< 0, 2 >>, << 1, 2 >>, << 2, 2 >>, << 3, 2 >>}
GameFruit == << 3, 0 >>
GameEnemy == << 7, 7 >>

\* Game::new (the board holds '-' in every cell and is never written)
GameNew ==
    [player |-> GamePlayer, barriers |-> GameBarriers, fruit |-> GameFruit,
     enemy |-> GameEnemy, destination |-> GameDestination]

\* main line 313 / the state in which Game::play is entered
GameInit ==
    /\ game = GameNew
    /\ input = << >>
    /\ out = << >>
    /\ over = FALSE
    /\ shown = 0

\* the whole of column 2
Column2 == {<< r, 2 >> : r \in 0 .. N - 1}

\* a single barrier cell diagonally next to the player
Pillar == {<< 1, 1 >>}

\* the room and the cells just outside it
RoomAndEdge == (0 .. RoomSize) \X (0 .. RoomSize)

\* the calls that are checked: <<start, goal, barriers>>
Inputs ==
    \* the fenced room with one wall (or none) in it
    {<< s, g, Fence \cup w >> : s \in RoomStarts, g \in Room, w \in Walls}
    \* the obstacle-free board, start and goal in the room
    \cup {<< s, g, {} >> : s \in RoomStarts, g \in Room}
    \* one barrier cell beside the start, the goal in the room or on its edge
    \cup {<< GamePlayer, g, Pillar >> : g \in RoomAndEdge \ Pillar}
    \* corner to corner on the obstacle-free board
    \cup {<< << 0, 0 >>, << N - 1, N - 1 >>, {} >>}
    \* column 2 blocked, the goal behind it
    \cup {<< << 0, 0 >>, << 4, 7 >>, Column2 >>}
    \* the call of main
    \cup {<< GamePlayer, GameDestination, GameBarriers >>}

Init ==
    /\ \E i \in Inputs : Setup(i[1], i[2], i[3])
    /\ run = 1
    /\ prev_cost = -1
    /\ GameInit

----------------------------------------------------------------------------
(* a_star, lines 66-91.                                                    *)

\* line 66-68: the popped node is the goal; reconstruct_path starts (line 119-120)
PopGoal ==
    /\ pc = "search"
    /\ \E n \in PopCandidates(open_set) :
        /\ n.point = goal
        /\ open_set' = open_set (-) SetToBag({n})
        /\ pc' = "reconstruct"
        /\ path' = << goal >>
        /\ current' = goal
    /\ UNCHANGED <<start, goal, barriers, closed_set, came_from, g_score, ret, run, prev_cost>>
    /\ UNCHANGED gameVars

\* line 66-87: the popped node is not the goal; it is closed and its
\* neighbours are relaxed
Expand ==
    /\ pc = "search"
    /\ \E n \in PopCandidates(open_set) :
        /\ n.point # goal
        /\ \E closed \in {closed_set \cup {n.point}} :
           \E st \in {Relax(neighbors(n.point), 1, n.point, closed, barriers, goal,
                            [g |-> g_score, cf |-> came_from,
                             os |-> open_set (-) SetToBag({n})])} :
               /\ closed_set' = closed
               /\ g_score' = st.g
               /\ came_from' = st.cf
               /\ open_set' = st.os
    /\ UNCHANGED <<start, goal, barriers, pc, path, current, ret, run, prev_cost>>
    /\ UNCHANGED gameVars

\* line 66, 90: the heap is empty, a_star returns None
Exhausted ==
    /\ pc = "search"
    /\ open_set = EmptyBag
    /\ pc' = "done"
    /\ ret' = "none"
    /\ UNCHANGED <<start, goal, barriers, open_set, closed_set, came_from, g_score,
                   path, current, run, prev_cost>>
    /\ UNCHANGED gameVars

\* a vector of the board's cells without repetition has at most N*N entries;
\* the walk is cut one past it
MaxPath == N * N + 1

\* the walk without `current = prev`
WalkStepStuck ==
    /\ pc = "reconstruct"
    /\ current \in DOMAIN came_from
    /\ Len(path) < MaxPath
    /\ path' = Append(path, came_from[current])
    /\ UNCHANGED <<start, goal, barriers, open_set, closed_set, came_from, g_score,
                   pc, ret, run, prev_cost, current>>
    /\ UNCHANGED gameVars

\* line 122-125: one link of the predecessor walk
WalkStep ==
    /\ pc = "reconstruct"
    /\ current \in DOMAIN came_from
    /\ Len(path) < MaxPath
    /\ path' = Append(path, came_from[current])
    /\ current' = came_from[current]
    /\ UNCHANGED <<start, goal, barriers, open_set, closed_set, came_from, g_score,
                   pc, ret, run, prev_cost>>
    /\ UNCHANGED gameVars

\* line 122, 127-128 and 68: no predecessor; the vector is reversed and returned
WalkEnd ==
    /\ pc = "reconstruct"
    /\ current \notin DOMAIN came_from
    /\ path' = Reverse(path)
    /\ pc' = "done"
    /\ ret' = "some"
    /\ UNCHANGED <<start, goal, barriers, open_set, closed_set, came_from, g_score,
                   current, run, prev_cost>>
    /\ UNCHANGED gameVars

Next == PopGoal \/ Expand \/ Exhausted \/ WalkStep \/ WalkEnd

Spec == Init /\ [][Next]_vars

\* main line 315: the call is a_star(game.player, game.destination, &game.barriers)
\* on the game of Game::new
MainCall == start = GamePlayer /\ goal = GameDestination /\ barriers = GameBarriers

\* main lines 315-321: the path is unwrapped and one iteration of
\* `for point in path` puts the player on the next point and prints the board
Replay ==
    /\ pc = "done"
    /\ ret = "some"
    /\ MainCall
    /\ shown < Len(path)
    /\ game' = [game EXCEPT !.player = path[shown + 1]]
    /\ shown' = shown + 1
    /\ UNCHANGED searchVars
    /\ UNCHANGED <<input, out, over>>

\* a call of a_star and, when it is main's, the replay of its path
NextMain == Next \/ Replay

\* the calls checked for termination: the fenced room with one wall (or
\* none), one barrier cell beside the start, column 2 blocked, and the call
\* of main
InputsFair ==
    {<< s, g, Fence \cup w >> : s \in RoomStarts, g \in Room, w \in Walls}
    \cup {<< GamePlayer, g, Pillar >> : g \in RoomAndEdge \ Pillar}
    \cup {<< << 0, 0 >>, << 4, 7 >>, Column2 >>}
    \cup {<< GamePlayer, GameDestination, GameBarriers >>}

InitFair ==
    /\ \E i \in InputsFair : Setup(i[1], i[2], i[3])
    /\ run = 1
    /\ prev_cost = -1
    /\ GameInit

\* the single thread runs every step it can
FairSpec == InitFair /\ [][NextMain]_vars /\ WF_vars(NextMain)

----------------------------------------------------------------------------
(* Two calls for the same start and goal, the second after the barriers    *)
(* are cleared.                                                            *)

\* the sum of calculate_distance over the consecutive coordinates of p
RECURSIVE PathCostFrom(_, _)
PathCostFrom(p, i) ==
    IF i >= Len(p) THEN 0
    ELSE calculate_distance(p[i], p[i + 1]) + PathCostFrom(p, i + 1)

PathCost(p) == PathCostFrom(p, 1)

\* Game::remove_barriers: self.barriers.clear()
remove_barriers(b) == {}

\* the second call made on the first call's closed_set
RerunKeepsClosed ==
    /\ pc = "done"
    /\ run = 1
    /\ run' = 2
    /\ prev_cost' = IF ret = "some" THEN PathCost(path) ELSE -1
    /\ barriers' = remove_barriers(barriers)
    /\ open_set' = SetToBag({Node(start, 0, calculate_distance(start, goal))})
    /\ came_from' = EmptyMap
    /\ g_score' = Insert(EmptyMap, start, 0)
    /\ pc' = "search"
    /\ path' = << >>
    /\ current' = start
    /\ ret' = "pending"
    /\ UNCHANGED <<start, goal, closed_set>>
    /\ UNCHANGED gameVars

\* the first call has returned; the barriers are cleared and a_star is
\* called again with the same start and goal (fresh maps, lines 57-64)
Rerun ==
    /\ pc = "done"
    /\ run = 1
    /\ run' = 2
    /\ prev_cost' = IF ret = "some" THEN PathCost(path) ELSE -1
    /\ barriers' = remove_barriers(barriers)
    /\ open_set' = SetToBag({Node(start, 0, calculate_distance(start, goal))})
    /\ closed_set' = {}
    /\ came_from' = EmptyMap
    /\ g_score' = Insert(EmptyMap, start, 0)
    /\ pc' = "search"
    /\ path' = << >>
    /\ current' = start
    /\ ret' = "pending"
    /\ UNCHANGED <<start, goal>>
    /\ UNCHANGED gameVars

NextClear == Next \/ Rerun

\* the first calls: the fenced room with one wall (or none)
InputsClear ==
    {<< s, g, Fence \cup w >> : s \in RoomStarts, g \in Room, w \in Walls}

InitClear ==
    /\ \E i \in InputsClear : Setup(i[1], i[2], i[3])
    /\ run = 1
    /\ prev_cost = -1
    /\ GameInit

SpecClear == InitClear /\ [][NextClear]_vars

----------------------------------------------------------------------------
(* Interactive mode: Game::play, lines 278-309.  A line of input is a       *)
(* sequence of one-character strings, as read_line returns it.              *)

Whitespace == {" ", "\t", "\r", "\n"}

\* str::trim, line 287: leading and trailing whitespace removed
RECURSIVE TrimStart(_)
TrimStart(line) ==
    IF line # << >> /\ Head(line) \in Whitespace THEN TrimStart(Tail(line)) ELSE line

RECURSIVE TrimEnd(_)
TrimEnd(line) ==
    IF line # << >> /\ line[Len(line)] \in Whitespace
    THEN TrimEnd(SubSeq(line, 1, Len(line) - 1))
    ELSE line

Trim(line) == TrimEnd(TrimStart(line))

\* lines 174-244: the match on the token, every arm clamped by its own test
get_direction_default_down(player, direction) ==
    LET x == player[1]
        y == player[2]
    IN  IF x < 7 THEN << x + 1, y >> ELSE << x, y >>

get_direction(player, direction) ==
    LET x == player[1]
        y == player[2]
    IN  CASE direction = << "u" >> -> IF x > 0 THEN << x - 1, y >> ELSE << x, y >>
          [] direction = << "d" >> -> IF x < 7 THEN << x + 1, y >> ELSE << x, y >>
          [] direction = << "l" >> -> IF y > 0 THEN << x, y - 1 >> ELSE << x, y >>
          [] direction = << "r" >> -> IF y < 7 THEN << x, y + 1 >> ELSE << x, y >>
          [] direction = << "u", "l" >> ->
                IF x > 0 /\ y > 0 THEN << x - 1, y - 1 >> ELSE << x, y >>
          [] direction = << "u", "r" >> ->
                IF x > 0 /\ y < 7 THEN << x - 1, y + 1 >> ELSE << x, y >>
          [] direction = << "d", "l" >> ->
                IF x < 7 /\ y > 0 THEN << x + 1, y - 1 >> ELSE << x, y >>
          [] direction = << "d", "r" >> ->
                IF x < 7 /\ y < 7 THEN << x + 1, y + 1 >> ELSE << x, y >>
          [] OTHER -> << x, y >>

\* lines 258-260
check_barrier(g, pos) == pos \in g.barriers

\* lines 246-252
move_player_unchecked(g, direction) ==
    [g EXCEPT !.player = get_direction(g.player, direction)]

move_player(g, direction) ==
    LET new_player == get_direction(g.player, direction)
    IN  IF ~check_barrier(g, new_player)
        THEN [g EXCEPT !.player = new_player]
        ELSE g

\* lines 254-256
check_collision(g) == g.player = g.enemy \/ g.player = g.destination

\* lines 262-264
check_fruit(g) == g.player = g.fruit

\* lines 266-268
check_win(g) == g.player = g.destination

\* lines 270-272
check_loss(g) == g.player = g.enemy \/ g.player \in g.barriers

\* line 295: the fruit is taken off the board
FruitGoneStays == GameFruit

FruitGone == << 8, 8 >>

AteMessage == "You ate the fruit! Barriers removed."

\* lines 291-296: the fruit block of one turn
eat_fruit(g) ==
    IF check_fruit(g)
    THEN [g EXCEPT !.barriers = remove_barriers(g.barriers), !.fruit = FruitGone]
    ELSE g

\* lines 292, 300-306: what one turn prints besides the board
messages(moved, after) ==
    (IF check_fruit(moved) THEN << AteMessage >> ELSE << >>)
    \o (IF check_collision(after)
        THEN IF check_win(after) THEN << "You win!" >>
             ELSE IF check_loss(after) THEN << "You lose!" >>
             ELSE << >>
        ELSE << >>)

\* the tokens typed: the eight directions and some that are none of them
Directions ==
    { << "u" >>, << "d" >>, << "l" >>, << "r" >>,
      << "u", "l" >>, << "u", "r" >>, << "d", "l" >>, << "d", "r" >> }

OtherTokens ==
    { << >>, << "x" >>, << "U" >>, << "u", "p" >>, << "u", " ", "l" >>,
      << "u", "l", "l" >>, << "l", "u" >> }

\* the lines read_line can return for a token: the token, possibly after a
\* blank, ended by the newline or by the end of the input
LinesOf(tok) ==
    { pre \o tok \o post : pre \in { << >>, << " " >> },
                           post \in { << "\n" >>, << "\r", "\n" >>, << >> } }

Lines == UNION { LinesOf(tok) : tok \in Directions \cup OtherTokens }

\* lines 281-308: one iteration of the loop of Game::play
Play ==
    /\ ~over
    /\ \E line \in Lines :
         LET direction == Trim(line)
             moved == move_player(game, direction)
             after == eat_fruit(moved)
         IN  /\ input' = line
             /\ game' = after
             /\ out' = messages(moved, after)
             /\ over' = check_collision(after)
    /\ UNCHANGED shown
    /\ UNCHANGED searchVars

NextPlay == Play

\* play starts on the game of Game::new; no search is running
InitPlay ==
    /\ Setup(GamePlayer, GameDestination, GameBarriers)
    /\ run = 1
    /\ prev_cost = -1
    /\ GameInit

SpecPlay == InitPlay /\ [][NextPlay]_vars

----------------------------------------------------------------------------
(* What the claims speak of.                                               *)

Max(a, b) == IF a >= b THEN a ELSE b
Min(a, b) == IF a <= b THEN a ELSE b

\* Chebyshev distance
Cheb(p, q) == Max(Abs(p[1] - q[1]), Abs(p[2] - q[2]))

Returned == pc = "done" /\ ret = "some"
ReturnedNone == pc = "done" /\ ret = "none"

\* breadth-first search over the 8-connected in-grid moves whose every cell
\* after start is outside the barrier set: the least number of moves from
\* start to goal, -1 when there is no such sequence of moves
RECURSIVE Bfs(_, _, _)
Bfs(front, seen, d) ==
    IF goal \in front THEN d
    ELSE LET nxt == {q \in Coord \ (seen \cup barriers) :
                        \E p \in front : Cheb(p, q) = 1}
         IN  IF nxt = {} THEN -1 ELSE Bfs(nxt, seen \cup nxt, d + 1)

ShortestSteps == Bfs({start}, {start}, 0)

\* the same breadth-first search between any two cells under any barrier set
RECURSIVE BfsTo(_, _, _, _, _)
BfsTo(front, seen, d, target, bars) ==
    IF target \in front THEN d
    ELSE LET nxt == {q \in Coord \ (seen \cup bars) :
                        \E p \in front : Cheb(p, q) = 1}
         IN  IF nxt = {} THEN -1 ELSE BfsTo(nxt, seen \cup nxt, d + 1, target, bars)

StepsBetween(from, to, bars) == BfsTo({from}, {from}, 0, to, bars)

\* main has replayed the whole path it unwrapped
Replayed == Returned /\ MainCall /\ shown = Len(path)

----------------------------------------------------------------------------
(* The claims.                                                             *)

\* C1: when a_star returns a path, the path has at least one coordinate, its
\* first coordinate is start and its last is goal; when start = goal the path
\* is exactly <<start>>.
C1_PathEndpoints ==
    Returned =>
        /\ Len(path) >= 1
        /\ path[1] = start
        /\ path[Len(path)] = goal
        /\ (start = goal => path = << start >>)

\* a path of at least two steps has been returned
C1_Witness == Returned /\ Len(path) >= 3 /\ path[1] = start /\ path[Len(path)] = goal

\* C2: when a_star returns a path, every coordinate of it is inside the grid
\* and every two consecutive coordinates are at Chebyshev distance exactly 1.
C2_StepsAreNeighbours ==
    Returned =>
        /\ \A i \in 1 .. Len(path) : path[i] \in Coord
        /\ \A i \in 1 .. Len(path) - 1 : Cheb(path[i], path[i + 1]) = 1

\* a returned path with a diagonal and an orthogonal step
C2_Witness ==
    /\ Returned
    /\ \E i \in 1 .. Len(path) - 1 :
          path[i][1] # path[i + 1][1] /\ path[i][2] # path[i + 1][2]
    /\ \E i \in 1 .. Len(path) - 1 :
          path[i][1] = path[i + 1][1] \/ path[i][2] = path[i + 1][2]

\* C3 as stated: no coordinate of a returned path, start and goal included,
\* is in the barrier set.
C3_NoBarrierOnPath ==
    Returned => \A i \in 1 .. Len(path) : path[i] \notin barriers

\* C3 as amended: no coordinate of a returned path after its first is in the
\* barrier set (a_star never tests start, which opens the path even when it
\* is a barrier).
C3_NoBarrierAfterStart ==
    Returned => \A i \in 2 .. Len(path) : path[i] \notin barriers

\* a path of at least two steps returned from a start that is a barrier,
\* past a wall
C3_Witness ==
    /\ Returned
    /\ Len(path) >= 3
    /\ start \in barriers
    /\ \E i \in 2 .. Len(path) : \E b \in barriers : Cheb(path[i], b) = 1

\* C4: a_star returns None exactly when no sequence of 8-connected in-grid
\* moves leads from start to goal with every cell after start outside the
\* barrier set.
C4_NoneIffUnreachable ==
    pc = "done" => ((ret = "none") <=> (ShortestSteps = -1))

\* None returned for a goal that is no barrier, after more than one expansion
C4_Witness ==
    /\ ReturnedNone
    /\ goal \notin barriers
    /\ start \notin barriers
    /\ Cardinality(closed_set) >= 2

\* C5: the cost of a returned path, the sum of calculate_distance over its
\* steps, is the number of its steps and is the least number of moves of any
\* 8-connected barrier-avoiding path from start to goal.
C5_ShortestPath ==
    Returned =>
        /\ PathCost(path) = Len(path) - 1
        /\ PathCost(path) = ShortestSteps

\* a returned path that is longer than the Chebyshev distance of its ends: a
\* wall forced a detour
C5_Witness ==
    /\ Returned
    /\ PathCost(path) = ShortestSteps
    /\ ShortestSteps > Cheb(start, goal)

DiagonalSteps(p) ==
    Cardinality({i \in 1 .. Len(p) - 1 :
                    p[i][1] # p[i + 1][1] /\ p[i][2] # p[i + 1][2]})

\* C6 as stated: on the obstacle-free grid a returned path has exactly
\* min(|dr|,|dc|) diagonal steps and ||dr|-|dc|| orthogonal steps.
C6_EuclideanShortest ==
    (Returned /\ barriers = {}) =>
        LET dr == Abs(goal[1] - start[1])
            dc == Abs(goal[2] - start[2])
        IN  /\ DiagonalSteps(path) = Min(dr, dc)
            /\ (Len(path) - 1) - DiagonalSteps(path) = Abs(dr - dc)

\* C7: when the call with the barriers returned a path, the call with the
\* same start and goal and no barriers returns a path whose cost is at most
\* the first path's.
C7_ClearingNeverCostsMore ==
    (run = 2 /\ pc = "done" /\ prev_cost >= 0) =>
        /\ ret = "some"
        /\ PathCost(path) <= prev_cost

\* the second call returned a strictly cheaper path
C7_Witness ==
    /\ run = 2
    /\ Returned
    /\ prev_cost >= 0
    /\ PathCost(path) < prev_cost

\* C8: every a_star call terminates: the pop loop ends and the predecessor
\* walk of reconstruct_path ends.
C8_Terminates == <>(pc = "done")

\* a call that returned after the pop loop ran several times and the walk
\* followed several links
C8_Witness ==
    /\ Returned
    /\ Cardinality(closed_set) >= 3
    /\ Len(path) >= 3

\* C9: with no obstacles a_star from (0,0) to (7,7) returns the path
\* (0,0),(1,1),...,(7,7): 8 coordinates, 7 diagonal steps.
C9_CornerToCorner ==
    (pc = "done" /\ start = << 0, 0 >> /\ goal = << 7, 7 >> /\ barriers = {}) =>
        /\ ret = "some"
        /\ path = [i \in 1 .. 8 |-> << i - 1, i - 1 >>]

C9_Witness ==
    /\ Returned
    /\ start = << 0, 0 >> /\ goal = << 7, 7 >> /\ barriers = {}
    /\ Len(path) = 8

\* C10 as stated: with the whole of column 2 blocked, a_star from (0,0) to
\* (4,7) returns a path from (0,0) to (4,7) with no coordinate in column 2.
C10_RoutesAroundColumn2 ==
    (pc = "done" /\ start = << 0, 0 >> /\ goal = << 4, 7 >> /\ barriers = Column2) =>
        /\ ret = "some"
        /\ path[1] = start
        /\ path[Len(path)] = goal
        /\ \A i \in 1 .. Len(path) : path[i][2] # 2

\* C10 as amended: with the whole of column 2 blocked, a_star from (0,0) to
\* (4,7) returns None: every cell of columns 0 and 1 is expanded and none of
\* column 2 or beyond is ever reached.
C10_Column2Separates ==
    (pc = "done" /\ start = << 0, 0 >> /\ goal = << 4, 7 >> /\ barriers = Column2) =>
        /\ ret = "none"
        /\ closed_set = (0 .. N - 1) \X (0 .. 1)
        /\ \A p \in DOMAIN g_score : p[2] < 2

C10_Witness ==
    /\ ReturnedNone
    /\ start = << 0, 0 >> /\ goal = << 4, 7 >> /\ barriers = Column2
    /\ Cardinality(closed_set) = 2 * N

\* C11: routing policy: when the fruit exists and both the player-to-fruit
\* leg and the fruit-to-destination leg can be found, the path main replays
\* passes through the fruit (it is the two legs joined, the fruit once at the
\* seam); the direct path is replayed only when a leg fails.
\* main makes one direct call and replays it: the path avoids the fruit.
C11_ReplayThroughFruit ==
    (/\ Replayed
     /\ StepsBetween(GamePlayer, GameFruit, GameBarriers) >= 0
     /\ StepsBetween(GameFruit, GameDestination, GameBarriers) >= 0)
        => \E i \in 1..Len(path) : path[i] = game.fruit

Range(f) == { f[i] : i \in DOMAIN f }

\* the lines whose token is none of the eight directions
UnknownLines == UNION { LinesOf(tok) : tok \in OtherTokens }

\* C12: in interactive mode a token other than u, d, l, r, ul, ur, dl, dr is
\* a no-op: the turn that processes it leaves the player, the barriers and
\* the fruit as they were, whatever moves came before.
C12_UnknownTokenIsNoOp ==
    [][input' \in UnknownLines =>
          /\ game'.player = game.player
          /\ game'.barriers = game.barriers
          /\ game'.fruit = game.fruit]_vars

\* an unknown token has been processed after the player had left its start
\* cell and eaten the fruit
C12_Witness ==
    /\ input \in UnknownLines
    /\ game.player \notin {GamePlayer, GameFruit}
    /\ game.barriers = {}

\* the move each direction token asks for
DirDelta(tok) ==
    CASE tok = << "u" >> -> << -1, 0 >>
      [] tok = << "d" >> -> << 1, 0 >>
      [] tok = << "l" >> -> << 0, -1 >>
      [] tok = << "r" >> -> << 0, 1 >>
      [] tok = << "u", "l" >> -> << -1, -1 >>
      [] tok = << "u", "r" >> -> << -1, 1 >>
      [] tok = << "d", "l" >> -> << 1, -1 >>
      [] tok = << "d", "r" >> -> << 1, 1 >>

PlayerOnBoard == game.player \in Coord /\ game.player \notin game.barriers

C13_Turn ==
    /\ Abs(game'.player[1] - game.player[1]) <= 1
    /\ Abs(game'.player[2] - game.player[2]) <= 1
    /\ \A tok \in Directions :
         input' \in LinesOf(tok) =>
            LET target == << game.player[1] + DirDelta(tok)[1],
                             game.player[2] + DirDelta(tok)[2] >>
            IN  (target \notin Coord \/ target \in game.barriers)
                    => game'.player = game.player

\* C13: in interactive mode, after any sequence of tokens from the initial
\* game the player is inside the grid [0,8)x[0,8) and not on a barrier; each
\* token moves the player by at most one cell per axis, and a move that would
\* leave the grid or enter a barrier leaves the player where it was.
C13_PlayerStaysOnBoard == [](PlayerOnBoard) /\ [][C13_Turn]_vars

\* "dr" was typed at (0,1) with the wall standing: (1,2) is a barrier, and no
\* move by "dr" ends at (0,1), so the player was there and stayed
C13_Witness ==
    /\ input \in LinesOf(<< "d", "r" >>)
    /\ game.player = << 0, 1 >>
    /\ game.barriers = GameBarriers

\* C14: every node in the frontier is Node(point, g, heuristic(point, goal)),
\* so its ordering key f_cost is g_cost + calculate_distance(point, goal).
\* Line 85 passes f_score, which is g + heuristic, as the h_cost: the key of
\* every pushed neighbour is 2 * g_cost + calculate_distance(point, goal).
C14_KeyIsGPlusHeuristic ==
    \A n \in BagToSet(open_set) :
        /\ n.h_cost = calculate_distance(n.point, goal)
        /\ f_cost(n) = n.g_cost + calculate_distance(n.point, goal)

\* the least total of calculate_distance edge costs over the 8-connected
\* paths from c to the goal on the obstacle-free grid: every edge joins two
\* neighbours and costs calculate_distance = 1, so it is the number of moves
LeastCostToGoal(c) ==
    IF \A i \in DOMAIN Deltas :
            Deltas[i] = << 0, 0 >> \/ calculate_distance(<< 0, 0 >>, Deltas[i]) = 1
    THEN StepsBetween(c, goal, {})
    ELSE -1

\* C15: the rounded heuristic is admissible for the rounded edge cost: on
\* the obstacle-free grid calculate_distance(c, goal) is at most the least
\* total edge cost of a path from c to the goal, for every coordinate c the
\* search has scored.
\* It overestimates: calculate_distance((0,0),(2,2)) = 3, two moves cost 2.
C15_HeuristicAdmissible ==
    barriers = {} =>
        \A c \in DOMAIN g_score : calculate_distance(c, goal) <= LeastCostToGoal(c)

C16_Step ==
    /\ \A c \in DOMAIN g_score :
          c \in DOMAIN g_score' /\ g_score'[c] <= g_score[c]
    /\ \A c \in DOMAIN came_from' :
          (c \notin DOMAIN came_from \/ came_from'[c] # came_from[c])
              => (c \notin DOMAIN g_score \/ g_score'[c] < g_score[c])

\* C16: within one a_star call g_score[c] never increases once set, and
\* came_from[c] is written only in a step where g_score[c] is first set or
\* strictly decreases; start keeps g_score 0 and never gets a predecessor.
C16_BestCostOnlyImproves ==
    /\ [](start \in DOMAIN g_score /\ g_score[start] = 0
            /\ start \notin DOMAIN came_from)
    /\ [][C16_Step]_vars

\* a recorded cost has been lowered: the frontier still holds the node pushed
\* with the higher cost, and the coordinate has a predecessor
C16_Witness ==
    \E n \in BagToSet(open_set) :
        /\ n.point \in DOMAIN came_from
        /\ n.g_cost > g_score[n.point]

\* the number of came_from links from c to start, -1 when start is not
\* reached within N * N - 1 links
RECURSIVE Links(_, _)
Links(c, k) ==
    IF c = start THEN k
    ELSE IF c \notin DOMAIN came_from \/ k >= N * N - 1 THEN -1
    ELSE Links(came_from[c], k + 1)

\* C17: at every step the predecessor map has no cycle: for every coordinate
\* c with predecessor p, g_score[c] >= g_score[p] + 1, so following came_from
\* from a recorded coordinate reaches start in at most 63 links.
C17_PredecessorsAcyclic ==
    \A c \in DOMAIN came_from :
        /\ c \in DOMAIN g_score
        /\ came_from[c] \in DOMAIN g_score
        /\ g_score[c] >= g_score[came_from[c]] + 1
        /\ Links(c, 0) \in 1 .. N * N - 1

\* a chain of several links exists while a coordinate on the frontier has
\* been given a new predecessor
C17_Witness ==
    /\ \E c \in DOMAIN came_from : Links(c, 0) >= 4
    /\ \E n \in BagToSet(open_set) :
          n.point \in DOMAIN came_from /\ n.g_cost > g_score[n.point]

\* C18: with the closed set a coordinate once expanded is never expanded
\* again: every step that pops a node and processes its neighbours takes a
\* coordinate that was not in closed_set, even when the frontier held several
\* entries for it.
\* closed_set is only tested for neighbours (line 74), never for the popped
\* node: the stale entry of a closed coordinate is expanded a second time.
C18_ExpandedOnce ==
    [][(pc = "search" /\ pc' = "search")
          => Cardinality(closed_set') = Cardinality(closed_set) + 1]_vars

\* C19: during any a_star call the number of entries in open_set, duplicate
\* entries for one coordinate counted, never exceeds N * N (64).
C19_FrontierBounded == BagCardinality(open_set) <= N * N

\* a frontier of a dozen entries, one of them a stale entry of a coordinate
\* whose cost has since been lowered
C19_Witness ==
    /\ BagCardinality(open_set) >= 12
    /\ \E n \in BagToSet(open_set) : n.g_cost > g_score[n.point]

C20_Turn ==
    /\ (AteMessage \in Range(out')) <=>
            (game.fruit = GameFruit /\ game'.player = GameFruit)
    /\ (AteMessage \in Range(out')) =>
            (game'.barriers = {} /\ game'.fruit = << 8, 8 >>)
    /\ game.fruit = << 8, 8 >> =>
            (game'.fruit = << 8, 8 >> /\ game'.barriers = {})
    /\ (game.fruit = GameFruit /\ game'.player # GameFruit) =>
            (game'.barriers = GameBarriers /\ game'.fruit = GameFruit)

\* C20: the pickup fires once and for good: in the turn the player first
\* reaches the fruit the barriers become empty and the fruit moves to (8,8);
\* afterwards the barriers stay empty and the pickup never fires again;
\* before that turn the barriers are the initial ones.
C20_PickupOnce ==
    /\ [](\/ game.fruit = GameFruit /\ game.barriers = GameBarriers
                /\ game.player # GameFruit
          \/ game.fruit = << 8, 8 >> /\ game.barriers = {})
    /\ [][C20_Turn]_vars

\* the player stands on the fruit's old cell in a later turn: nothing fired
C20_Witness ==
    /\ game.player = GameFruit
    /\ game.fruit = << 8, 8 >>
    /\ game.barriers = {}
    /\ AteMessage \notin Range(out)

============================================================================
